---- MODULE Spec2Model ----
\* A model of config_parser.py: the ConfigParser class that converts the
\* configuration language (comments, constants, key/value lines, arrays
\* terminated by ".") into a document.
\*
\* Text is a sequence of one-character strings.  Indices handed to Find and
\* Slice are Python's (0-based, end-exclusive), so the operators read like
\* the source.
EXTENDS Integers, Sequences, FiniteSets, TLC

VARIABLES pc, input, out, out2, lines, lineNum, constants, result, err, returned, calls

vars == <<pc, input, out, out2, lines, lineNum, constants, result, err, returned, calls>>

\* ------------------------------------------------------------------ bounds

\* Longest text handed to remove_comments on its own.
MaxLen == 6

\* Most lines of a document built from the line pool.
MaxLines == 3

\* Longest contents s of a document "k = [[s]]".
MaxStr == 2

\* Most lines of each of the documents one parser reads in turn.
MaxReuseLines == 2

\* Most calls of parse on one parser.
MaxCalls == 2

\* Longest token handed to parse_value for the number forms.
MaxTok == 3

\* Most items of an array built for parse_value and parse_array.
MaxItems == 2

\* ------------------------------------------------------------- characters

NL == "\n"
SP == " "

Letters == {"a", "b", "c", "d", "e", "f", "g", "h", "i", "j", "k", "l", "m",
            "n", "o", "p", "q", "r", "s", "t", "u", "v", "w", "x", "y", "z",
            "A", "B", "C", "D", "E", "F", "G", "H", "I", "J", "K", "L", "M",
            "N", "O", "P", "Q", "R", "S", "T", "U", "V", "W", "X", "Y", "Z"}

Digits == {"0", "1", "2", "3", "4", "5", "6", "7", "8", "9"}

\* What str.strip() and the regular expressions' \s take for white space.
Whitespace == {SP, NL, "\t", "\r"}

\* ---------------------------------------------------------- str helpers

SetMin(S) == CHOOSE m \in S : \A n \in S : m <= n

\* s[a:b]
Slice(s, a, b) == SubSeq(s, a + 1, b)

\* s.find(pat, start): the least index >= start where pat occurs, or -1.
Find(s, pat, start) ==
    LET hits == {i \in start .. (Len(s) - Len(pat)) : Slice(s, i, i + Len(pat)) = pat}
    IN  IF hits = {} THEN -1 ELSE SetMin(hits)

\* pat in s
Contains(s, pat) == Find(s, pat, 0) # -1

StartsWith(s, pat) == Len(s) >= Len(pat) /\ Slice(s, 0, Len(pat)) = pat

EndsWith(s, pat) == Len(s) >= Len(pat) /\ Slice(s, Len(s) - Len(pat), Len(s)) = pat

\* s.strip()
Strip(s) ==
    LET keep == {i \in 1 .. Len(s) : s[i] \notin Whitespace}
    IN  IF keep = {} THEN <<>>
        ELSE SubSeq(s, SetMin(keep), CHOOSE m \in keep : \A n \in keep : n <= m)

RECURSIVE Split(_, _)
\* s.split(sep) for a one-character sep: always at least one piece.
Split(s, sep) ==
    LET p == Find(s, <<sep>>, 0)
    IN  IF p = -1 THEN <<s>>
        ELSE <<Slice(s, 0, p)>> \o Split(Slice(s, p + 1, Len(s)), sep)

RECURSIVE Join(_, _)
\* sep.join(parts)
Join(parts, sep) ==
    IF Len(parts) = 0 THEN <<>>
    ELSE IF Len(parts) = 1 THEN parts[1]
    ELSE parts[1] \o <<sep>> \o Join(Tail(parts), sep)

\* ------------------------------------------------------- remove_comments

BlockOpen == <<"(", "*">>
BlockClose == <<"*", ")">>
LineMark == <<"|", "|">>

RECURSIVE RemoveBlockCommentsNearClose(_)
\* RemoveBlockComments with the closing marker looked for from start + 1, so
\* that the "*" of the opening marker may close the comment.
RemoveBlockCommentsNearClose(t) ==
    LET start == Find(t, BlockOpen, 0)
        end == Find(t, BlockClose, start + 1)
    IN  IF start = -1 THEN [ok |-> TRUE, text |-> t]
        ELSE IF end = -1 THEN [ok |-> FALSE, text |-> <<>>]
        ELSE RemoveBlockCommentsNearClose(Slice(t, 0, start) \o Slice(t, end + 2, Len(t)))

RECURSIVE RemoveBlockComments(_)
\* The while loop of remove_comments: excise "(* ... *)" spans until no "(*"
\* is left; an opening marker with no closing marker from start + 2 on raises.
RemoveBlockComments(t) ==
    LET start == Find(t, BlockOpen, 0)
        end == Find(t, BlockClose, start + 2)
    IN  IF start = -1 THEN [ok |-> TRUE, text |-> t]
        ELSE IF end = -1 THEN [ok |-> FALSE, text |-> <<>>]
        ELSE RemoveBlockComments(Slice(t, 0, start) \o Slice(t, end + 2, Len(t)))

\* One line of the for loop of remove_comments: cut at the first "||".
CutLineComment(line) ==
    LET comment_pos == Find(line, LineMark, 0)
    IN  IF comment_pos # -1 THEN Slice(line, 0, comment_pos) ELSE line

\* The for loop of remove_comments over text.split('\n'), joined again.
RemoveLineComments(t) ==
    LET ls == Split(t, NL)
    IN  Join([i \in 1 .. Len(ls) |-> CutLineComment(ls[i])], NL)

\* remove_comments with its two passes in the other order: line comments
\* are cut first, block comments after.
remove_comments_LinesFirst(t) ==
    RemoveBlockComments(RemoveLineComments(t))

\* remove_comments(text): ok = FALSE stands for the SyntaxError raised.
remove_comments(t) ==
    LET blocks == RemoveBlockComments(t)
    IN  IF blocks.ok THEN [ok |-> TRUE, text |-> RemoveLineComments(blocks.text)]
        ELSE blocks

\* ------------------------------------------------------------------ values

\* What parse_value returns: an int, a float, a str or a list.  Every value
\* carries all five fields, so any two values can be compared.
\*   int    n is the number
\*   float  the number is n / 10^e, with e the least such exponent
\*   str    s is the text
\*   list   items is the sequence of its values
IntV(n) == [t |-> "int", n |-> n, e |-> 0, s |-> <<>>, items |-> <<>>]
FloatV(n, e) == [t |-> "float", n |-> n, e |-> e, s |-> <<>>, items |-> <<>>]
StrV(s) == [t |-> "str", n |-> 0, e |-> 0, s |-> s, items |-> <<>>]
ListV(items) == [t |-> "list", n |-> 0, e |-> 0, s |-> <<>>, items |-> items]

\* A call that returned v, and a call that raised exc with the message msg.
Return(v) == [ok |-> TRUE, exc |-> "", msg |-> "", val |-> v]
Raise(exc, msg) == [ok |-> FALSE, exc |-> exc, msg |-> msg, val |-> StrV(<<>>)]

\* ---------------------------------------------------------------- dicts

\* A Python dict: the (key, value) pairs in insertion order.
DictHas(d, k) == \E i \in 1 .. Len(d) : d[i].key = k

DictGet(d, k) == d[CHOOSE i \in 1 .. Len(d) : d[i].key = k].val

\* d[k] = v: a key already there keeps its place.
DictSet(d, k, v) ==
    IF DictHas(d, k)
    THEN [i \in 1 .. Len(d) |-> IF d[i].key = k THEN [key |-> k, val |-> v] ELSE d[i]]
    ELSE Append(d, [key |-> k, val |-> v])

\* ---------------------------------------------------------- parse_number

DigitVal(c) ==
    CASE c = "0" -> 0 [] c = "1" -> 1 [] c = "2" -> 2 [] c = "3" -> 3 [] c = "4" -> 4
      [] c = "5" -> 5 [] c = "6" -> 6 [] c = "7" -> 7 [] c = "8" -> 8 [] c = "9" -> 9

RECURSIVE DigitsNat(_)
\* int(ds) for a run of digits; the empty run counts 0.
DigitsNat(ds) ==
    IF ds = <<>> THEN 0
    ELSE 10 * DigitsNat(SubSeq(ds, 1, Len(ds) - 1)) + DigitVal(ds[Len(ds)])

RECURSIVE DropTrailingZeros(_)
DropTrailingZeros(ds) ==
    IF ds # <<>> /\ ds[Len(ds)] = "0" THEN DropTrailingZeros(SubSeq(ds, 1, Len(ds) - 1))
    ELSE ds

\* float(value) for digits "." digits: the decimal it denotes (1.50 = 1.5).
ToFloat(value) ==
    LET dot == Find(value, <<".">>, 0)
        frac == DropTrailingZeros(Slice(value, dot + 1, Len(value)))
    IN  FloatV(DigitsNat(Slice(value, 0, dot) \o frac), Len(frac))

parse_number(value) ==
    IF Contains(value, <<".">>) THEN ToFloat(value) ELSE IntV(DigitsNat(value))

\* ---------------------------------------------------------- parse_string

parse_string(value) ==
    IF StartsWith(value, <<"[", "[">>) /\ EndsWith(value, <<"]", "]">>)
    THEN StrV(Slice(value, 2, Len(value) - 2))
    ELSE StrV(value)

\* ------------------------------------------------------------ the regexes

AllIn(s, S) == \A i \in 1 .. Len(s) : s[i] \in S

\* ^[a-zA-Z][a-zA-Z0-9]*$
IsIdentifier(s) == Len(s) >= 1 /\ s[1] \in Letters /\ AllIn(s, Letters \cup Digits)

\* ^!\(([a-zA-Z][a-zA-Z0-9]*)\)$
IsConstRef(s) ==
    /\ StartsWith(s, <<"!", "(">>)
    /\ EndsWith(s, <<")">>)
    /\ IsIdentifier(Slice(s, 2, Len(s) - 1))

\* group(1) of the match above.
ConstRefName(s) == Slice(s, 2, Len(s) - 1)

\* ^\d+$
IsIntToken(s) == Len(s) >= 1 /\ AllIn(s, Digits)

\* ^\d*\.\d+$
IsFloatToken(s) ==
    \E dot \in 1 .. Len(s) :
        /\ s[dot] = "."
        /\ AllIn(SubSeq(s, 1, dot - 1), Digits)
        /\ dot < Len(s)
        /\ AllIn(SubSeq(s, dot + 1, Len(s)), Digits)

\* The condition of parse_value's number branch.
IsNumberToken(s) == IsFloatToken(s) \/ IsIntToken(s)

\* ----------------------------------------------- parse_array, parse_value

RECURSIVE SplitItems(_, _, _, _, _, _)
\* The scan of parse_array over content + ".": chars[i ..] are still to read,
\* items and current_item are what the loop holds, with its two counters.
SplitItems(chars, i, items, current_item, brace_count, bracket_count) ==
    IF i > Len(chars) THEN items
    ELSE LET char == chars[i]
         IN  IF char = "." /\ brace_count = 0 /\ bracket_count = 0
             THEN SplitItems(chars, i + 1,
                             IF Strip(current_item) # <<>>
                             THEN Append(items, Strip(current_item)) ELSE items,
                             <<>>, brace_count, bracket_count)
             ELSE SplitItems(chars, i + 1, items, Append(current_item, char),
                             brace_count + (IF char = "{" THEN 1 ELSE IF char = "}" THEN -1 ELSE 0),
                             bracket_count + (IF char = "[" THEN 1 ELSE IF char = "]" THEN -1 ELSE 0))

RECURSIVE parse_value(_, _)
RECURSIVE parse_array(_, _)
RECURSIVE ParseItems(_, _, _)

\* The last loop of parse_array: parse the items in order; the first one that
\* raises ends the call.
ParseItems(items, parsed_items, consts) ==
    IF items = <<>> THEN Return(ListV(parsed_items))
    ELSE LET r == parse_value(Strip(Head(items)), consts)
         IN  IF r.ok THEN ParseItems(Tail(items), Append(parsed_items, r.val), consts)
             ELSE r

parse_array(value0, consts) ==
    LET value == Strip(value0)
        content == Strip(Slice(value, 1, Len(value) - 1))
    IN  IF ~StartsWith(value, <<"{">>) \/ ~EndsWith(value, <<"}">>)
        THEN Raise("SyntaxError", "MalformedArray")
        ELSE IF content = <<>> THEN Return(ListV(<<>>))
        ELSE ParseItems(SplitItems(content \o <<".">>, 1, <<>>, <<>>, 0, 0), <<>>, consts)

\* parse_value(value) with self.constants = consts.
parse_value(value0, consts) ==
    LET value == Strip(value0)
    IN  IF IsConstRef(value)
        THEN IF ~DictHas(consts, ConstRefName(value))
             THEN Raise("NameError", "UndefinedConstant")
             ELSE Return(DictGet(consts, ConstRefName(value)))
        ELSE IF IsNumberToken(value) THEN Return(parse_number(value))
        ELSE IF StartsWith(value, <<"[", "[">>) /\ EndsWith(value, <<"]", "]">>)
        THEN Return(parse_string(value))
        ELSE IF StartsWith(value, <<"{">>) /\ EndsWith(value, <<"}">>)
        THEN parse_array(value, consts)
        ELSE Return(StrV(value))

\* ------------------------------------- parse_assignment, parse_key_value

\* The longest prefix of line that is an identifier (0: there is none).
NameLen(line) ==
    LET ns == {n \in 1 .. Len(line) : IsIdentifier(Slice(line, 0, n))}
    IN  IF ns = {} THEN 0 ELSE CHOOSE m \in ns : \A n \in ns : n <= m

\* s without its leading white space (the \s* of the regular expression).
SkipSpace(s) ==
    LET keep == {i \in 1 .. Len(s) : s[i] \notin Whitespace}
    IN  IF keep = {} THEN <<>> ELSE SubSeq(s, SetMin(keep), Len(s))

\* ^([a-zA-Z][a-zA-Z0-9]*)\s*:=\s*(.+)$ matches line.
AssignmentMatches(line) ==
    LET rest == SkipSpace(Slice(line, NameLen(line), Len(line)))
    IN  /\ NameLen(line) >= 1
        /\ StartsWith(rest, <<":", "=">>)
        /\ Len(rest) >= 3
        /\ ~Contains(Slice(rest, 2, Len(rest)), <<NL>>)

\* parse_assignment that binds a name only once: a name already bound keeps
\* its first value.
parse_assignment_FirstWins(line, consts) ==
    LET name == Slice(line, 0, NameLen(line))
        rest == SkipSpace(Slice(line, NameLen(line), Len(line)))
        value_str == Strip(Slice(rest, 2, Len(rest)))
        value == parse_value(value_str, consts)
    IN  IF ~AssignmentMatches(line)
        THEN [ok |-> FALSE, exc |-> "SyntaxError", msg |-> "BadAssignment", constants |-> consts]
        ELSE IF ~value.ok
        THEN [ok |-> FALSE, exc |-> value.exc, msg |-> value.msg, constants |-> consts]
        ELSE [ok |-> TRUE, exc |-> "", msg |-> "",
              constants |-> IF DictHas(consts, name) THEN consts
                            ELSE DictSet(consts, name, value.val)]

\* parse_assignment(line): the constants after it, or what it raised.
parse_assignment(line, consts) ==
    LET name == Slice(line, 0, NameLen(line))
        rest == SkipSpace(Slice(line, NameLen(line), Len(line)))
        value_str == Strip(Slice(rest, 2, Len(rest)))
        value == parse_value(value_str, consts)
    IN  IF ~AssignmentMatches(line)
        THEN [ok |-> FALSE, exc |-> "SyntaxError", msg |-> "BadAssignment", constants |-> consts]
        ELSE IF ~value.ok
        THEN [ok |-> FALSE, exc |-> value.exc, msg |-> value.msg, constants |-> consts]
        ELSE [ok |-> TRUE, exc |-> "", msg |-> "", constants |-> DictSet(consts, name, value.val)]

\* parse_key_value(line) for a line that holds "=": the (key, value) pair, or
\* what it raised.
parse_key_value(line, consts) ==
    LET eq == Find(line, <<"=">>, 0)
        key == Strip(Slice(line, 0, eq))
        value_str == Strip(Slice(line, eq + 1, Len(line)))
        value == parse_value(value_str, consts)
    IN  IF eq = -1
        THEN [ok |-> FALSE, exc |-> "SyntaxError", msg |-> "BadKeyValue", key |-> <<>>, val |-> StrV(<<>>)]
        ELSE IF ~IsIdentifier(key)
        THEN [ok |-> FALSE, exc |-> "SyntaxError", msg |-> "BadKey", key |-> key, val |-> StrV(<<>>)]
        ELSE IF ~value.ok
        THEN [ok |-> FALSE, exc |-> value.exc, msg |-> value.msg, key |-> key, val |-> StrV(<<>>)]
        ELSE [ok |-> TRUE, exc |-> "", msg |-> "", key |-> key, val |-> value.val]

\* ------------------------------------------------------------------ parse

NoError == [exc |-> "", line |-> 0, cause |-> "", msg |-> ""]
NoDocument == [set |-> FALSE, doc |-> <<>>]

\* parse(text), up to its loop: remove_comments, then text.split('\n').
\* An unterminated comment leaves parse before any line is read.
ParseBegin ==
    /\ pc = "call"
    /\ LET stripped == remove_comments(input)
       IN  IF stripped.ok
           THEN /\ lines' = Split(stripped.text, NL)
                /\ pc' = "loop"
                /\ err' = NoError
           ELSE /\ lines' = <<>>
                /\ pc' = "raised"
                /\ err' = [exc |-> "SyntaxError", line |-> 0, cause |-> "SyntaxError",
                           msg |-> "UnterminatedComment"]
    /\ lineNum' = 0
    /\ result' = <<>>
    /\ returned' = NoDocument
    /\ UNCHANGED <<input, out, out2, constants, calls>>

\* What one pass of the loop body does to (constants, result): the branch
\* taken by the stripped line, and the exception it ends with, if any.
LineStep(line0, consts, res) ==
    LET line == Strip(line0)
        a == parse_assignment(line, consts)
        kv == parse_key_value(line, consts)
    IN  IF line = <<>>
        THEN [ok |-> TRUE, exc |-> "", msg |-> "", constants |-> consts, result |-> res]
        ELSE IF Contains(line, <<":", "=">>)
        THEN [ok |-> a.ok, exc |-> a.exc, msg |-> a.msg, constants |-> a.constants, result |-> res]
        ELSE IF Contains(line, <<"=">>)
        THEN [ok |-> kv.ok, exc |-> kv.exc, msg |-> kv.msg, constants |-> consts,
              result |-> IF kv.ok THEN DictSet(res, kv.key, kv.val) ELSE res]
        ELSE [ok |-> FALSE, exc |-> "SyntaxError", msg |-> "UnrecognizedLine",
              constants |-> consts, result |-> res]

\* ParseLine with enumerate(lines) counting from 0: the line number reported
\* is one too small.
ParseLine_CountFromZero ==
    /\ pc = "loop"
    /\ lineNum < Len(lines)
    /\ LET step == LineStep(lines[lineNum + 1], constants, result)
       IN  /\ constants' = step.constants
           /\ result' = step.result
           /\ IF step.ok
              THEN /\ pc' = "loop"
                   /\ err' = err
              ELSE /\ pc' = "raised"
                   /\ err' = [exc |-> "SyntaxError", line |-> lineNum,
                              cause |-> step.exc, msg |-> step.msg]
    /\ lineNum' = lineNum + 1
    /\ UNCHANGED <<input, out, out2, lines, returned, calls>>

\* One iteration of parse's loop.  Whatever the line raises is raised again
\* as a SyntaxError carrying line_num and the cause.
ParseLine ==
    /\ pc = "loop"
    /\ lineNum < Len(lines)
    /\ LET step == LineStep(lines[lineNum + 1], constants, result)
       IN  /\ constants' = step.constants
           /\ result' = step.result
           /\ IF step.ok
              THEN /\ pc' = "loop"
                   /\ err' = err
              ELSE /\ pc' = "raised"
                   /\ err' = [exc |-> "SyntaxError", line |-> lineNum + 1,
                              cause |-> step.exc, msg |-> step.msg]
    /\ lineNum' = lineNum + 1
    /\ UNCHANGED <<input, out, out2, lines, returned, calls>>

\* return result
ParseReturn ==
    /\ pc = "loop"
    /\ lineNum = Len(lines)
    /\ pc' = "returned"
    /\ returned' = [set |-> TRUE, doc |-> result]
    /\ UNCHANGED <<input, out, out2, lines, lineNum, constants, result, err, calls>>

\* ----------------------------------------------------------------- inputs

\* All texts of at most n characters over the alphabet A.
Texts(A, n) == UNION {[1 .. k -> A] : k \in 0 .. n}

\* All sequences of at most n elements of S.
SeqsUpTo(S, n) == UNION {[1 .. k -> S] : k \in 0 .. n}

\* The characters that make comments, and the line break.
CommentAlphabet == {"(", "*", ")", "|", NL, "a"}

\* The lines documents are built from: bindings, references, faulty lines,
\* comments (one of them spanning a line break) and a brace block.
LBindX1 == <<"x", " ", ":", "=", " ", "1">>
LBindX2 == <<"x", " ", ":", "=", " ", "2">>
LBindYX == <<"y", " ", ":", "=", " ", "!", "(", "x", ")">>
LRefKX == <<"k", " ", "=", " ", "!", "(", "x", ")">>
LRefJY == <<"j", " ", "=", " ", "!", "(", "y", ")">>
LNestedRef == <<"k", " ", "=", " ", "{", "!", "(", "x", ")", ".", "}">>
LJunk == <<"b", " ", "c">>
LBadKey == <<"1", " ", "=", " ", "2">>
LBadName == <<"1", "x", " ", ":", "=", " ", "2">>
LLineComment == <<"|", "|", " ", "c">>
LBlockComment == <<"(", "*", NL, "*", ")">>
LOpen == <<"s", " ", "=", " ", "{">>
LInner == <<"p", " ", "=", " ", "8">>
LClose == <<"}">>

LinePool == {LBindX1, LBindX2, LBindYX, LRefKX, LRefJY, LNestedRef, LJunk, LBadKey,
             LBadName, LLineComment, LBlockComment, LOpen, LInner, LClose}

\* The characters of the contents of a bracketed string.
StringAlphabet == {"a", " ", "|", "(", "*", "=", ":", ".", "{", "}"}

\* The one-line document  k = [[s]]
KeyLine(s) == <<"k", " ", "=", " ", "[", "[">> \o s \o <<"]", "]">>

Documents ==
    {Join(ls, NL) : ls \in SeqsUpTo(LinePool, MaxLines)}
        \cup {KeyLine(s) : s \in Texts(StringAlphabet, MaxStr)}

ReusePool == {LBindX1, LBindYX, LRefKX, LRefJY}

ReuseDocuments == {Join(ls, NL) : ls \in SeqsUpTo(ReusePool, MaxReuseLines)}

\* ------------------------------------------------- one parse, fresh parser

\* ConfigParser() followed by parse(input), as main() runs it.
Init ==
    /\ pc = "call"
    /\ input \in Documents
    /\ out = <<>>
    /\ out2 = <<>>
    /\ lines = <<>>
    /\ lineNum = 0
    /\ constants = <<>>
    /\ result = <<>>
    /\ err = NoError
    /\ returned = NoDocument
    /\ calls = 1

Next == ParseBegin \/ ParseLine \/ ParseReturn

Spec == Init /\ [][Next]_vars

\* ----------------------------------------- two parses, the same parser

InitReuse ==
    /\ pc = "call"
    /\ input \in ReuseDocuments
    /\ out = <<>>
    /\ out2 = <<>>
    /\ lines = <<>>
    /\ lineNum = 0
    /\ constants = <<>>
    /\ result = <<>>
    /\ err = NoError
    /\ returned = NoDocument
    /\ calls = 1

\* parse is called again on the same ConfigParser: nothing of the object is
\* reset between the calls.
ParseAgain ==
    /\ pc \in {"returned", "raised"}
    /\ calls < MaxCalls
    /\ input' \in ReuseDocuments
    /\ pc' = "call"
    /\ calls' = calls + 1
    /\ UNCHANGED <<out, out2, lines, lineNum, constants, result, err, returned>>

NextReuse == ParseBegin \/ ParseLine \/ ParseReturn \/ ParseAgain

SpecReuse == InitReuse /\ [][NextReuse]_vars

\* ------------------------------------------------ remove_comments alone

InitStrip ==
    /\ pc = "strip"
    /\ input \in Texts(CommentAlphabet, MaxLen)
    /\ out = <<>>
    /\ out2 = <<>>
    /\ lines = <<>>
    /\ lineNum = 0
    /\ constants = <<>>
    /\ result = <<>>
    /\ err = NoError
    /\ returned = NoDocument
    /\ calls = 0

\* out = remove_comments(input)
RemoveCommentsCall ==
    /\ pc = "strip"
    /\ out' = remove_comments(input)
    /\ pc' = "stripped"
    /\ UNCHANGED <<input, out2, lines, lineNum, constants, result, err, returned, calls>>

\* out2 = remove_comments(out), when the first call returned.
RemoveCommentsAgain ==
    /\ pc = "stripped"
    /\ out.ok
    /\ out2' = remove_comments(out.text)
    /\ pc' = "stripped2"
    /\ UNCHANGED <<input, out, lines, lineNum, constants, result, err, returned, calls>>

NextStrip == RemoveCommentsCall \/ RemoveCommentsAgain

SpecStrip == InitStrip /\ [][NextStrip]_vars

\* ------------------------------------ parse_value and parse_array alone

\* The characters of the number tokens.
NumberAlphabet == {"0", "1", "5", ".", "a"}

\* Values with a source form of theirs: numbers, a bracketed string, a
\* bareword.
LeafForms ==
    {[v |-> IntV(7), src |-> <<"7">>],
     [v |-> FloatV(15, 1), src |-> <<"1", ".", "5">>],
     [v |-> FloatV(25, 1), src |-> <<"2", ".", "5">>],
     [v |-> StrV(<<"a">>), src |-> <<"[", "[", "a", "]", "]">>],
     [v |-> StrV(<<"b">>), src |-> <<"b">>]}

RECURSIVE ItemsText(_)
\* item ". " item ". " ... : every item followed by the terminator.
ItemsText(srcs) ==
    IF srcs = <<>> THEN <<>> ELSE Head(srcs) \o <<".", " ">> \o ItemsText(Tail(srcs))

\* The source form of an array:  { item. item. }
ArrayText(srcs) == <<"{", " ">> \o ItemsText(srcs) \o <<"}">>

\* The arrays of at most MaxItems of the forms fs, with their source form.
ArrayForms(fs) ==
    {[v |-> ListV([k \in 1 .. Len(items) |-> items[k].v]),
      src |-> ArrayText([k \in 1 .. Len(items) |-> items[k].src])] :
        items \in SeqsUpTo(fs, MaxItems)}

\* Values nested to depth two: leaves, arrays of leaves, an array around one
\* of either.
RoundTripForms ==
    LeafForms \cup ArrayForms(LeafForms)
        \cup {[v |-> ListV(<<f.v>>), src |-> ArrayText(<<f.src>>)] : f \in ArrayForms(LeafForms)}
        \cup {[v |-> ListV(<<f.v, g.v>>), src |-> ArrayText(<<f.src, g.src>>)] :
                f \in ArrayForms(LeafForms), g \in LeafForms}

\* Array items that hold the terminator or braces out of the scan's sight:
\* bracketed strings and nested arrays.
ItemTexts ==
    {<<"[", "[", "a", ".", "b", "]", "]">>,
     <<"[", "[", "{", "]", "]">>,
     <<"[", "[", "}", "]", "]">>,
     <<"[", "[", "{", "}", "]", "]">>,
     <<"{", " ", "1", ".", " ", "}">>,
     <<"{", " ", "[", "[", ".", "]", "]", ".", " ", "}">>}

ArrayInputs == {ArrayText(items) : items \in SeqsUpTo(ItemTexts, MaxItems)}

ValueInputs ==
    Texts(NumberAlphabet, MaxTok) \cup {f.src : f \in RoundTripForms} \cup ArrayInputs

InitValue ==
    /\ pc = "value"
    /\ input \in ValueInputs
    /\ out = <<>>
    /\ out2 = <<>>
    /\ lines = <<>>
    /\ lineNum = 0
    /\ constants = <<>>
    /\ result = <<>>
    /\ err = NoError
    /\ returned = NoDocument
    /\ calls = 0

\* out = parse_value(input) on a new ConfigParser
ParseValueCall ==
    /\ pc = "value"
    /\ out' = parse_value(input, constants)
    /\ pc' = "valued"
    /\ UNCHANGED <<input, out2, lines, lineNum, constants, result, err, returned, calls>>

\* out = parse_array(input) on a new ConfigParser
ParseArrayCall ==
    /\ pc = "value"
    /\ out' = parse_array(input, constants)
    /\ pc' = "arrayed"
    /\ UNCHANGED <<input, out2, lines, lineNum, constants, result, err, returned, calls>>

NextValue == ParseValueCall \/ ParseArrayCall

SpecValue == InitValue /\ [][NextValue]_vars

\* ============================================================== claims

\* The marker m (two characters) stands somewhere in t.
HasMarker(t, m) == \E i \in 1 .. Len(t) - 1 : t[i] = m[1] /\ t[i + 1] = m[2]

\* --- C8 ---------------------------------------------------------------
\* C8: comment removal is idempotent.  Whenever remove_comments(t) returns,
\* remove_comments applied to what it returned returns too, with the same
\* text; and what it returned holds neither "(*" nor "||", also where the
\* two sides of an excised block comment were joined.
C8_Idempotent ==
    /\ pc \in {"stripped", "stripped2"} /\ out.ok
          => ~HasMarker(out.text, BlockOpen) /\ ~HasMarker(out.text, LineMark)
    /\ pc = "stripped2" => out2.ok /\ out2.text = out.text

\* A second call returned for a text in which "||" arose only from joining
\* the two sides of an excised block comment.
C8_Witness ==
    /\ pc = "stripped2"
    /\ ~HasMarker(input, LineMark)
    /\ \E i \in 1 .. Len(input) - 5 :
           /\ input[i] = "|"
           /\ SubSeq(input, i + 1, i + 2) = BlockOpen
           /\ \E j \in i + 3 .. Len(input) - 2 :
                  SubSeq(input, j, j + 1) = BlockClose /\ input[j + 2] = "|"

\* --- C10 --------------------------------------------------------------

RECURSIVE ExciseComplete(_)
\* t after its complete block comments are excised from left to right: the
\* leftmost "(*" goes with the first "*)" that starts at least two characters
\* after it; the excision stops at a "(*" that has none.
ExciseComplete(t) ==
    LET opens == {i \in 1 .. Len(t) - 1 : t[i] = "(" /\ t[i + 1] = "*"}
        o == SetMin(opens)
        closes == {j \in o + 2 .. Len(t) - 1 : t[j] = "*" /\ t[j + 1] = ")"}
        c == SetMin(closes)
    IN  IF opens = {} THEN t
        ELSE IF closes = {} THEN t
        ELSE ExciseComplete(SubSeq(t, 1, o - 1) \o SubSeq(t, c + 2, Len(t)))

\* C10: block comments are checked before any line-comment logic.
\* remove_comments raises exactly when, after the complete "(* ... *)" spans
\* are excised from left to right, a "(*" remains (it has no "*)" two or more
\* characters after its start), whether or not a "||" stands to its left on
\* the line.
C10_UnterminatedRaises ==
    pc \in {"stripped", "stripped2"}
        => (~out.ok <=> HasMarker(ExciseComplete(input), BlockOpen))

\* remove_comments raised on a text whose unclosed "(*" stands to the right
\* of a "||" on the same line.
C10_Witness ==
    /\ pc = "stripped"
    /\ ~out.ok
    /\ \E i \in 1 .. Len(input) - 1, j \in 1 .. Len(input) - 1 :
           /\ i + 1 < j
           /\ SubSeq(input, i, i + 1) = LineMark
           /\ SubSeq(input, j, j + 1) = BlockOpen
           /\ \A k \in i .. j : input[k] # NL
           /\ ~HasMarker(input, BlockClose)

\* --- lines, as the claims speak of them ---------------------------------

\* The names and keys the line pool uses.
ConstNameSeq == << <<"x">>, <<"y">> >>
ConstNames == {ConstNameSeq[n] : n \in 1 .. Len(ConstNameSeq)}
KeyNames == {<<"k">>, <<"j">>, <<"s">>, <<"p">>}

\* The positions of ":=" and of "=" in l.
BindOps(l) == {q \in 1 .. Len(l) - 1 : l[q] = ":" /\ l[q + 1] = "="}
EqSigns(l) == {q \in 1 .. Len(l) : l[q] = "="}

\* l (trimmed) is a binding line  name := rhs.
IsBindingOf(l, name) ==
    \E q \in BindOps(l) : Strip(SubSeq(l, 1, q - 1)) = name /\ q + 2 <= Len(l)

\* The right-hand side of a binding line.
BindingRhs(l) == Strip(SubSeq(l, SetMin(BindOps(l)) + 2, Len(l)))

\* l (trimmed) is a key/value line  key = rhs  (it holds no ":=").
IsKeyLineOf(l, key) ==
    /\ BindOps(l) = {}
    /\ EqSigns(l) # {}
    /\ Strip(SubSeq(l, 1, SetMin(EqSigns(l)) - 1)) = key

KeyRhs(l) == Strip(SubSeq(l, SetMin(EqSigns(l)) + 1, Len(l)))

\* The text  !(name)
RefTo(name) == <<"!", "(">> \o name \o <<")">>

\* The binding lines of name before line i of ls.
BindingsBefore(ls, i, name) == {j \in 1 .. i - 1 : IsBindingOf(Strip(ls[j]), name)}

SetMax(S) == CHOOSE m \in S : \A n \in S : n <= m

RECURSIVE Latest(_, _, _)
\* The value !(name) stands for at line i of ls: that of the last binding
\* line of name before i, itself a reference resolved at its own line, or a
\* literal.  Only asked where such a binding line exists.
Latest(ls, i, name) ==
    LET j == SetMax(BindingsBefore(ls, i, name))
        rhs == BindingRhs(Strip(ls[j]))
    IN  IF \E n \in ConstNames : rhs = RefTo(n)
        THEN Latest(ls, j, CHOOSE n \in ConstNames : rhs = RefTo(n))
        ELSE parse_value(rhs, <<>>).val

\* The lines parse has gone through without raising.
Passed == IF pc = "raised" THEN lineNum - 1 ELSE lineNum

RECURSIVE TableBefore(_, _, _)
\* The constants bound by the lines before line i of ls, each with the value
\* of its latest binding line.
TableBefore(names, ls, i) ==
    IF names = <<>> THEN <<>>
    ELSE LET rest == TableBefore(Tail(names), ls, i)
         IN  IF BindingsBefore(ls, i, Head(names)) = {} THEN rest
             ELSE <<[key |-> Head(names), val |-> Latest(ls, i, Head(names))]>> \o rest

\* What is wrong with the value v at line i of ls: "" for nothing.  A
\* reference, alone or inside an array, is wrong when its name has no
\* binding line before i.
ValueFault(v, ls, i) ==
    LET r == parse_value(v, TableBefore(ConstNameSeq, ls, i))
    IN  IF r.ok THEN "" ELSE r.msg

\* What is wrong with line i of ls ("" for nothing), the lines before it
\* being sound: a line with ":=" must be  name := value, a line with "="
\* must be  key = value, a line with neither is not recognized.
LineFault(ls, i) ==
    LET l == Strip(ls[i])
        b == SetMin(BindOps(l))
        q == SetMin(EqSigns(l))
    IN  IF l = <<>> THEN ""
        ELSE IF BindOps(l) # {}
        THEN IF IsIdentifier(Strip(SubSeq(l, 1, b - 1))) /\ b + 2 <= Len(l)
             THEN ValueFault(BindingRhs(l), ls, i)
             ELSE "BadAssignment"
        ELSE IF EqSigns(l) # {}
        THEN IF IsIdentifier(Strip(SubSeq(l, 1, q - 1)))
             THEN ValueFault(KeyRhs(l), ls, i)
             ELSE "BadKey"
        ELSE "UnrecognizedLine"

\* C6: parse is fail-fast with line context.  Every line parse has passed
\* is sound; when the processing of a line fails, parse raises a SyntaxError
\* that carries that line's 1-based number in the comment-stripped text and
\* the cause, returns no document, and reads no further line: the constants
\* and the keys recorded all come from lines before it.  parse returns only
\* after the last line.
C6_FailFast ==
    /\ pc \in {"loop", "returned", "raised"}
          => \A i \in 1 .. Passed : LineFault(lines, i) = ""
    /\ (pc = "raised" /\ err.line >= 1)
          => /\ err.exc = "SyntaxError"
             /\ err.line = lineNum
             /\ lineNum <= Len(lines)
             /\ err.msg # ""
             /\ err.msg = LineFault(lines, lineNum)
             /\ ~returned.set
             /\ \A c \in 1 .. Len(constants) :
                    BindingsBefore(lines, lineNum, constants[c].key) # {}
             /\ \A r \in 1 .. Len(result) :
                    \E j \in 1 .. lineNum - 1 : IsKeyLineOf(Strip(lines[j]), result[r].key)
    /\ pc = "returned" => lineNum = Len(lines) /\ returned.doc = result

\* parse raised for an undefined constant on a line that is neither the
\* first nor the last, in a text that lost a line break to a block comment,
\* so that the number reported is that of the stripped text.
C6_Witness ==
    /\ pc = "raised"
    /\ err.cause = "NameError"
    /\ err.line >= 2
    /\ err.line < Len(lines)
    /\ Len(Split(input, NL)) > Len(lines)

\* --- C5 ---------------------------------------------------------------

\* A mapping as a value: what a brace block of key = value lines stands for.
DictV(pairs) == [t |-> "dict", n |-> 0, e |-> 0, s |-> <<>>, items |-> pairs]

\* The document  s = {  /  p = 8  /  }
BlockDocument == Join(<<LOpen, LInner, LClose>>, NL)

\* C5: parse accepts a brace block that a key opens on its own line and a
\* line holding only "}" closes: the key maps to the nested mapping of the
\* inner key = value lines, and the inner keys are no top-level keys.
C5_NestedBlocks ==
    (input = BlockDocument /\ pc \in {"returned", "raised"})
        => /\ pc = "returned"
           /\ DictHas(returned.doc, <<"s">>)
           /\ DictGet(returned.doc, <<"s">>) = DictV(<<[key |-> <<"p">>, val |-> IntV(8)]>>)
           /\ ~DictHas(returned.doc, <<"p">>)

\* --- C9 ---------------------------------------------------------------
\* C9: the contents of a bracketed string survive a whole-document parse
\* verbatim.  For every s without a line break, parse of the one line
\* k = [[s]]  returns the document that maps k to exactly s, also when s
\* holds "||", "(*", "=", ".", "{" or "}".
C9_TextVerbatim ==
    \A s \in Texts(StringAlphabet, MaxStr) :
        (input = KeyLine(s) /\ pc \in {"returned", "raised"})
            => /\ pc = "returned"
               /\ returned.doc = <<[key |-> <<"k">>, val |-> StrV(s)]>>

\* --- C7 ---------------------------------------------------------------

RECURSIVE RunLines(_, _, _, _)
\* parse's loop over ls from line i on, begun with the given constants and
\* result: the document returned, or the line and the cause of the failure.
RunLines(ls, i, consts, res) ==
    IF i > Len(ls) THEN [raised |-> FALSE, line |-> 0, msg |-> "", doc |-> res]
    ELSE LET step == LineStep(ls[i], consts, res)
         IN  IF step.ok THEN RunLines(ls, i + 1, step.constants, step.result)
             ELSE [raised |-> TRUE, line |-> i, msg |-> step.msg, doc |-> <<>>]

\* parse(text) with an empty constant table.
FreshParse(text) ==
    LET stripped == remove_comments(text)
    IN  IF stripped.ok THEN RunLines(Split(stripped.text, NL), 1, <<>>, <<>>)
        ELSE [raised |-> TRUE, line |-> 0, msg |-> "UnterminatedComment", doc |-> <<>>]

\* C7: the constant table is scoped to one parse invocation.  A document
\* parsed after another one ends as it does with an empty table: a constant
\* bound only in the earlier document is not visible, and a reference to it
\* fails with an undefined-constant error.
C7_TableScopedToParse ==
    (calls >= 2 /\ pc \in {"returned", "raised"})
        => LET fresh == FreshParse(input)
           IN  /\ (pc = "raised") = fresh.raised
               /\ err.line = fresh.line
               /\ err.msg = fresh.msg
               /\ pc = "returned" => returned.doc = fresh.doc

\* --- C4 ---------------------------------------------------------------

\* digits, or digits "." digits, with at least one digit in each run.
WellFormedNumber(tok) ==
    \/ Len(tok) >= 1 /\ AllIn(tok, Digits)
    \/ \E d \in 2 .. Len(tok) - 1 :
           /\ tok[d] = "."
           /\ AllIn(SubSeq(tok, 1, d - 1), Digits)
           /\ AllIn(SubSeq(tok, d + 1, Len(tok)), Digits)

\* C4: parse_value takes a token for a Number exactly when it is digits or
\* digits "." digits; the number is an int without "." and a float with
\* one.  A token with a leading dot (.5) or a trailing dot (5.) is no Number.
C4_NumberForms ==
    (pc = "valued" /\ AllIn(input, NumberAlphabet))
        => /\ out.ok
           /\ out.val.t \in {"int", "float"} <=> WellFormedNumber(input)
           /\ out.val.t = "int" => ~Contains(input, <<".">>)
           /\ out.val.t = "float" => Contains(input, <<".">>)

\* --- C2 ---------------------------------------------------------------
\* C2: round trip.  parse_value of the source form of a value (digits,
\* digits.digits, [[s]], a bareword, { item. item. } nested) returns that
\* value: the array { 1.5. 2.5. } comes back as the two floats.
C2_RoundTrip ==
    pc = "valued" => \A f \in RoundTripForms : f.src = input => out = Return(f.v)

\* --- C3 ---------------------------------------------------------------
\* C3: parse_array takes "." for a terminator only outside nested arrays and
\* bracketed strings.  Of  { i1. i2. ... in. }  with every item a nested
\* array or a bracketed string that may hold ".", "{" or "}", it returns n
\* elements, the k-th being parse_value(ik).
C3_ItemsKept ==
    pc = "arrayed" =>
        \A items \in SeqsUpTo(ItemTexts, MaxItems) :
            ArrayText(items) = input
                => /\ out.ok
                   /\ Len(out.val.items) = Len(items)
                   /\ \A k \in 1 .. Len(items) :
                          out.val.items[k] = parse_value(items[k], <<>>).val

====
